---- MODULE Spec2Model ----
(***************************************************************************)
(* Model of importCollada.py: a one-shot Blender batch script.  The script *)
(* is straight-line code; every section of it is one action, sequenced by  *)
(* pc.  Paths are sequences of characters so that os.path.dirname is       *)
(* computed, not assumed.  The scene is a function from object ids to      *)
(* records (type, parent, location, select).  The operators the script     *)
(* calls act on the selection, so the active object is not part of the     *)
(* state.                                                                  *)
(***************************************************************************)
EXTENDS Integers, Sequences, FiniteSets, TLC

VARIABLES sys_argv, argv, input_dae_path, output_blend_path, output_image_path,
          pc, exitStatus, stdout, dirs,
          scene, camera, world,
          engine, renderSettings, saved, rendered

vars == <<sys_argv, argv, input_dae_path, output_blend_path, output_image_path,
          pc, exitStatus, stdout, dirs,
          scene, camera, world,
          engine, renderSettings, saved, rendered>>

\* ------------------------------------------------------------------ bounds
MaxObjs == 2
MaxArgs == 3

\* ------------------------------------------------------------- path values
None == <<"None">>
Sep == "/"
DashDash == <<"-", "-">>
EmptyPath == << >>

DaePaths == { <<"i">> }
BlendPaths == { EmptyPath, <<"b">>, <<"d", "/", "b">> }
ImagePaths == { EmptyPath, <<"r">>, <<"d", "/", "r">>, <<"d", "/", "e", "/", "r">> }
ExtraArgs == { <<"x">> }

ArgAt(i) == IF i = 1 THEN DaePaths
            ELSE IF i = 2 THEN BlendPaths
            ELSE IF i = 3 THEN ImagePaths
            ELSE ExtraArgs

ArgLists == UNION { { a \in [1..n -> DaePaths \cup BlendPaths \cup ImagePaths \cup ExtraArgs] :
                        \A i \in 1..n : a[i] \in ArgAt(i) } : n \in 0..MaxArgs }

\* blender -b -P script.py [--] [args]; a second "--" is an ordinary argument
Launcher == << <<"P">> >>
SysArgvs == { Launcher \o a : a \in ArgLists }
            \cup { Launcher \o <<DashDash>> \o a : a \in ArgLists }
            \cup { Launcher \o <<DashDash, DashDash>> }

\* --------------------------------------------------------- pure functions
\* list.index(x): the first position holding x
Index(s, x) == CHOOSE i \in 1..Len(s) : s[i] = x /\ \A j \in 1..(i-1) : s[j] # x

ArgsAfter_NoSeparatorKeepsAll(s) ==
    IF \E i \in 1..Len(s) : s[i] = DashDash
    THEN SubSeq(s, Index(s, DashDash) + 1, Len(s))
    ELSE s

\* argv[argv.index("--") + 1:] if "--" in argv else []
ArgsAfter(s) ==
    IF \E i \in 1..Len(s) : s[i] = DashDash
    THEN SubSeq(s, Index(s, DashDash) + 1, Len(s))
    ELSE << >>

\* argv[k] if len(argv) > k else None   (k is the 0-based Python index)
ArgOrNone(a, k) == IF Len(a) > k THEN a[k + 1] ELSE None

\* Python truthiness of an optional string
Truthy(p) == p # None /\ p # EmptyPath

\* p.rfind(sep) + 1
RFindPlus1(p) == IF \E i \in 1..Len(p) : p[i] = Sep
                 THEN CHOOSE i \in 1..Len(p) : p[i] = Sep /\ \A j \in (i+1)..Len(p) : p[j] # Sep
                 ELSE 0

RECURSIVE RStrip(_)
RStrip(h) == IF h # << >> /\ h[Len(h)] = Sep THEN RStrip(SubSeq(h, 1, Len(h) - 1)) ELSE h

\* posixpath.dirname
Dirname(p) ==
    LET head == SubSeq(p, 1, RFindPlus1(p))
    IN  IF head # << >> /\ \E i \in 1..Len(head) : head[i] # Sep
        THEN RStrip(head)
        ELSE head

\* os.makedirs(name, exist_ok=True) raises FileNotFoundError on the empty name
MakedirsRaises(name) == name = EmptyPath

\* the directory and every missing ancestor are created; existing ones are kept
Makedirs(d, name) ==
    d \cup { SubSeq(name, 1, k) : k \in { j \in 1..Len(name) :
                 name[j] # Sep /\ (j = Len(name) \/ name[j + 1] = Sep) } }

\* ------------------------------------------------------------ scene values
Types == { "MESH", "ARMATURE", "CAMERA", "LIGHT", "EMPTY" }
Origin == <<0, 0, 0>>
Locations == { Origin, <<1, 2, 3>> }
CameraLocation == <<7, -7, 5>>
NoObject == 0

ObjRecs == [ type : Types, parent : 0..MaxObjs, location : Locations, select : {TRUE} ]

\* what a .dae file can hold: any forest of typed objects; the importer leaves
\* the imported objects selected
ImportedScenes == UNION { { s \in [1..n -> ObjRecs] : \A i \in 1..n : s[i].parent < i }
                          : n \in 0..MaxObjs }

EmptyScene == [ o \in {} |-> 0 ]

\* the world left by read_factory_settings: none, one without a node tree, or
\* one with the default Background -> World Output tree
NoWorld == [ exists |-> FALSE, use_nodes |-> FALSE, nodes |-> << >>, linked |-> FALSE, strength |-> 0 ]
Worlds == { NoWorld,
            [ exists |-> TRUE, use_nodes |-> FALSE, nodes |-> << >>, linked |-> FALSE, strength |-> 0 ],
            [ exists |-> TRUE, use_nodes |-> TRUE, nodes |-> <<"BACKGROUND", "OUTPUT_WORLD">>,
              linked |-> TRUE, strength |-> 1 ] }


DefaultWorld == [ exists |-> TRUE, use_nodes |-> TRUE, nodes |-> <<"BACKGROUND", "OUTPUT_WORLD">>,
                  linked |-> TRUE, strength |-> 1 ]

\* the scene Blender starts with before the script runs: camera, cube, light
StartupScene ==
    [ o \in 1..3 |->
        [ type |-> IF o = 1 THEN "CAMERA" ELSE IF o = 2 THEN "MESH" ELSE "LIGHT",
          parent |-> NoObject, location |-> <<1, 2, 3>>, select |-> (o = 2) ] ]

FactoryEngine == "BLENDER_EEVEE"
FactoryRender == [ file_format |-> "PNG", filepath |-> << "/", "t", "m", "p", "/" >>,
                   resolution_x |-> 1920, resolution_y |-> 1080, film_transparent |-> FALSE ]

\* ------------------------------------------------------------------- Init
Init ==
    /\ sys_argv \in SysArgvs
    /\ argv = << >>
    /\ input_dae_path = None
    /\ output_blend_path = None
    /\ output_image_path = None
    /\ pc = "args"
    /\ exitStatus = -1
    /\ stdout = << >>
    /\ dirs = {}
    /\ scene = StartupScene
    /\ camera = 1
    /\ world = DefaultWorld
    /\ engine = FactoryEngine
    /\ renderSettings = FactoryRender
    /\ saved = FALSE
    /\ rendered = FALSE

\* ------------------------------------------------- lines 6-18: arguments
ParseArgs ==
    /\ pc = "args"
    /\ LET a == ArgsAfter(sys_argv) IN
       /\ argv' = a
       /\ IF Len(a) < 1
          THEN /\ stdout' = stdout \o <<"Error: No input DAE file path provided.", "Usage">>
               /\ exitStatus' = 1
               /\ pc' = "exited"
               /\ UNCHANGED <<input_dae_path, output_blend_path, output_image_path>>
          ELSE /\ input_dae_path' = a[1]
               /\ output_blend_path' = ArgOrNone(a, 1)
               /\ output_image_path' = ArgOrNone(a, 2)
               /\ pc' = "mkdirs"
               /\ UNCHANGED <<stdout, exitStatus>>
    /\ UNCHANGED <<sys_argv, dirs, scene, camera, world, engine,
                   renderSettings, saved, rendered>>

\* ------------------------------------- lines 20-26: output directories
EnsureDirs ==
    /\ pc = "mkdirs"
    /\ LET bdir == Dirname(output_blend_path)
           idir == Dirname(output_image_path)
           braise == Truthy(output_blend_path) /\ MakedirsRaises(bdir)
           d1 == IF Truthy(output_blend_path) /\ ~braise THEN Makedirs(dirs, bdir) ELSE dirs
           iraise == ~braise /\ Truthy(output_image_path) /\ MakedirsRaises(idir)
           d2 == IF ~braise /\ Truthy(output_image_path) /\ ~iraise THEN Makedirs(d1, idir) ELSE d1
       IN /\ dirs' = d2
          /\ IF braise \/ iraise
             THEN /\ pc' = "crashed"
                  /\ stdout' = stdout \o <<"FileNotFoundError">>
             ELSE /\ pc' = "reset"
                  /\ stdout' = stdout \o <<"Attempting to import DAE">>
    /\ UNCHANGED <<sys_argv, argv, input_dae_path, output_blend_path, output_image_path,
                   exitStatus, scene, camera, world, engine, renderSettings,
                   saved, rendered>>

\* ------------------------------- line 32: read_factory_settings(use_empty)
ResetScene ==
    /\ pc = "reset"
    /\ scene' = EmptyScene
    /\ camera' = NoObject
    /\ world' \in Worlds
    /\ engine' = FactoryEngine
    /\ renderSettings' = FactoryRender
    /\ pc' = "import"
    /\ UNCHANGED <<sys_argv, argv, input_dae_path, output_blend_path, output_image_path,
                   exitStatus, stdout, dirs, saved, rendered>>

\* ------------------------------------------------ lines 34-50: import
ImportOk ==
    /\ pc = "import"
    /\ \E s \in ImportedScenes :
         /\ scene' = s
         /\ camera' \in {NoObject} \cup { o \in DOMAIN s : s[o].type = "CAMERA" }
    /\ stdout' = stdout \o <<"Successfully imported DAE">>
    /\ pc' = "armatures"
    /\ UNCHANGED <<sys_argv, argv, input_dae_path, output_blend_path, output_image_path,
                   exitStatus, dirs, world, engine, renderSettings, saved, rendered>>

ImportFailFallsThrough ==
    /\ pc = "import"
    /\ stdout' = stdout \o <<"Error importing DAE file">>
    /\ pc' = "armatures"
    /\ UNCHANGED <<sys_argv, argv, input_dae_path, output_blend_path, output_image_path,
                   exitStatus, dirs, scene, camera, world, engine, renderSettings,
                   saved, rendered>>

\* except RuntimeError: print, sys.exit(1)
ImportFail ==
    /\ pc = "import"
    /\ stdout' = stdout \o <<"Error importing DAE file">>
    /\ exitStatus' = 1
    /\ pc' = "exited"
    /\ UNCHANGED <<sys_argv, argv, input_dae_path, output_blend_path, output_image_path,
                   dirs, scene, camera, world, engine, renderSettings,
                   saved, rendered>>

\* ------------------------------------------------- Blender operators used
\* bpy.ops.object.select_all(action='DESELECT')
DeselectAll(sc) == [ o \in DOMAIN sc |-> [ sc[o] EXCEPT !.select = FALSE ] ]

\* obj.select_set(True) for every object of the set
SelectSet(sc, S) == [ o \in DOMAIN sc |-> IF o \in S THEN [ sc[o] EXCEPT !.select = TRUE ] ELSE sc[o] ]

Selected(sc) == { o \in DOMAIN sc : sc[o].select }

VecAdd(a, b) == << a[1] + b[1], a[2] + b[2], a[3] + b[3] >>

RECURSIVE WorldLocation(_, _)
WorldLocation(sc, o) ==
    IF sc[o].parent = NoObject \/ sc[o].parent \notin DOMAIN sc
    THEN sc[o].location
    ELSE VecAdd(WorldLocation(sc, sc[o].parent), sc[o].location)

\* bpy.ops.object.parent_clear(type='CLEAR_KEEP_TRANSFORM'): acts on the
\* selected objects (not on the active one)
ParentClear(sc) ==
    [ o \in DOMAIN sc |->
        IF sc[o].select
        THEN [ sc[o] EXCEPT !.parent = NoObject, !.location = WorldLocation(sc, o) ]
        ELSE sc[o] ]

\* bpy.ops.object.delete(use_global=True): the selected objects go away, their
\* children stay and lose the parent pointer
ObjectDelete(sc) ==
    LET keep == DOMAIN sc \ Selected(sc)
    IN  [ o \in keep |->
            IF sc[o].parent \in keep \cup {NoObject} THEN sc[o]
            ELSE [ sc[o] EXCEPT !.parent = NoObject ] ]

\* bpy.ops.object.origin_set(type='ORIGIN_GEOMETRY'): every selected object's
\* origin moves to the centre of its geometry, wherever that is
OriginSet(sc, centre) ==
    [ o \in DOMAIN sc |-> IF sc[o].select THEN [ sc[o] EXCEPT !.location = centre[o] ] ELSE sc[o] ]

\* bpy.ops.object.location_clear()
LocationClear(sc) ==
    [ o \in DOMAIN sc |-> IF sc[o].select THEN [ sc[o] EXCEPT !.location = Origin ] ELSE sc[o] ]

SetMax(S) == IF S = {} THEN 0 ELSE CHOOSE m \in S : \A x \in S : x <= m
SetMin(S) == CHOOSE m \in S : \A x \in S : m <= x

\* bpy.ops.object.camera_add / light_add: the new object is the only selected
\* one
NewId(sc) == SetMax(DOMAIN sc) + 1
ObjectAdd(sc, t, loc) ==
    [ o \in DOMAIN sc \cup {NewId(sc)} |->
        IF o = NewId(sc)
        THEN [ type |-> t, parent |-> NoObject, location |-> loc, select |-> TRUE ]
        ELSE [ sc[o] EXCEPT !.select = FALSE ] ]

\* --------------------------------------- lines 52-89: remove armatures
ArmaturesOnlyRoots(sc) ==
    { o \in DOMAIN sc : sc[o].type = "ARMATURE" /\ sc[o].parent = NoObject }

\* armature_objects_to_delete
ArmatureObjectsToDelete(sc) == { o \in DOMAIN sc : sc[o].type = "ARMATURE" }

\* obj.children restricted to meshes, over every armature
MeshChildren(sc) ==
    { c \in DOMAIN sc : sc[c].type = "MESH" /\ sc[c].parent \in ArmatureObjectsToDelete(sc) }

\* the inner loop, one parent_clear per mesh child
RECURSIVE ClearParents(_, _)
ClearParents(sc, todo) ==
    IF todo = {} THEN sc
    ELSE ClearParents(ParentClear(sc), todo \ {SetMin(todo)})

MeshObjects(sc) == { o \in DOMAIN sc : sc[o].type = "MESH" }

RemoveArmatures ==
    /\ pc = "armatures"
    /\ LET s0 == DeselectAll(scene)
           del == ArmatureObjectsToDelete(s0)
           s1 == ClearParents(s0, MeshChildren(s0))
           s2 == IF del # {} THEN ObjectDelete(SelectSet(DeselectAll(s1), del)) ELSE s1
           s3 == SelectSet(DeselectAll(s2), MeshObjects(s2))
       IN /\ scene' = s3
          /\ camera' = IF camera \in DOMAIN s3 THEN camera ELSE NoObject
          /\ stdout' = stdout \o << IF del # {} THEN "Deleted armature objects."
                                    ELSE "No armatures found to delete." >>
    /\ pc' = "center"
    /\ UNCHANGED <<sys_argv, argv, input_dae_path, output_blend_path, output_image_path,
                   exitStatus, dirs, world, engine, renderSettings, saved, rendered>>

\* ------------------------------------------ lines 91-107: centre meshes
CenterSelectionNotCameraOrLight(sc) ==
    { o \in DOMAIN sc : sc[o].type \notin {"CAMERA", "LIGHT"} }

\* the objects selected for centring
CenterSelection(sc) == { o \in DOMAIN sc : sc[o].type = "MESH" }

CenterMeshes ==
    /\ pc = "center"
    /\ LET s0 == SelectSet(DeselectAll(scene), CenterSelection(scene))
       IN IF Selected(s0) # {}
          THEN /\ \E centre \in [ Selected(s0) -> Locations ] :
                     scene' = LocationClear(OriginSet(s0, centre))
               /\ stdout' = stdout \o <<"Imported objects centered to origin.">>
          ELSE /\ scene' = s0
               /\ stdout' = stdout \o <<"No mesh objects found after DAE import to center.">>
    /\ pc' = "camera"
    /\ UNCHANGED <<sys_argv, argv, input_dae_path, output_blend_path, output_image_path,
                   exitStatus, dirs, camera, world, engine, renderSettings, saved, rendered>>

\* ------------------------------------------------ lines 109-114: camera
HasCameraObject(sc, cam) == \E o \in DOMAIN sc : sc[o].type = "CAMERA"

\* bpy.context.scene.camera is set
HasSceneCamera(sc, cam) == cam # NoObject

AddCamera ==
    /\ pc = "camera"
    /\ IF ~HasSceneCamera(scene, camera)
       THEN /\ scene' = ObjectAdd(scene, "CAMERA", CameraLocation)
            /\ camera' = NewId(scene)
            /\ stdout' = stdout \o <<"Added a default camera.">>
       ELSE UNCHANGED <<scene, camera, stdout>>
    /\ pc' = "light"
    /\ UNCHANGED <<sys_argv, argv, input_dae_path, output_blend_path, output_image_path,
                   exitStatus, dirs, world, engine, renderSettings, saved, rendered>>

\* ------------------------------------------------- lines 116-155: light
\* existing_light is not None
ExistingLight(sc) == \E o \in DOMAIN sc : sc[o].type = "LIGHT"

AddLight ==
    /\ pc = "light"
    /\ IF ~ExistingLight(scene)
       THEN /\ scene' = ObjectAdd(scene, "LIGHT", Origin)
            /\ stdout' = stdout \o <<"No light found, adding a default Sun light.",
                                     "Sun light energy set and rotated.">>
       ELSE /\ stdout' = stdout \o <<"Existing light found, not adding a new one.">>
            /\ UNCHANGED scene
    /\ pc' = "save"
    /\ UNCHANGED <<sys_argv, argv, input_dae_path, output_blend_path, output_image_path,
                   exitStatus, dirs, camera, world, engine, renderSettings, saved, rendered>>

\* -------------------------------------------------- lines 159-162: save
SaveBlendIfNotNone ==
    /\ pc = "save"
    /\ IF output_blend_path # None
       THEN /\ saved' = TRUE
            /\ stdout' = stdout \o <<"Saved .blend file">>
       ELSE UNCHANGED <<saved, stdout>>
    /\ pc' = "render"
    /\ UNCHANGED <<sys_argv, argv, input_dae_path, output_blend_path, output_image_path,
                   exitStatus, dirs, scene, camera, world, engine, renderSettings,
                   rendered>>

SaveBlend ==
    /\ pc = "save"
    /\ IF Truthy(output_blend_path)
       THEN /\ saved' = TRUE
            /\ stdout' = stdout \o <<"Saved .blend file">>
       ELSE UNCHANGED <<saved, stdout>>
    /\ pc' = "render"
    /\ UNCHANGED <<sys_argv, argv, input_dae_path, output_blend_path, output_image_path,
                   exitStatus, dirs, scene, camera, world, engine, renderSettings,
                   rendered>>

\* ------------------------------------------------ lines 164-227: render
\* for node in nodes: if node.type != 'OUTPUT_WORLD': nodes.remove(node)
\* (the iteration goes on by position over the collection it shrinks)
RemoveAt(s, i) == SubSeq(s, 1, i - 1) \o SubSeq(s, i + 1, Len(s))

RECURSIVE RemoveLoop(_, _)
RemoveLoop(nodes, i) ==
    IF i > Len(nodes) THEN nodes
    ELSE IF nodes[i] # "OUTPUT_WORLD" THEN RemoveLoop(RemoveAt(nodes, i), i + 1)
    ELSE RemoveLoop(nodes, i + 1)

DefaultNodes == <<"BACKGROUND", "OUTPUT_WORLD">>

\* world.use_nodes = True creates the default tree when there is none
UseNodes(w) == IF w.use_nodes THEN w.nodes ELSE DefaultNodes

Render ==
    /\ pc = "render"
    /\ IF Truthy(output_image_path)
       THEN /\ engine' = "CYCLES"
            /\ world' = [ exists |-> TRUE, use_nodes |-> TRUE,
                          nodes |-> RemoveLoop(UseNodes(world), 1) \o <<"BACKGROUND">>,
                          linked |-> TRUE, strength |-> 5 ]
            /\ renderSettings' = [ file_format |-> "PNG", filepath |-> output_image_path,
                                   resolution_x |-> 1920, resolution_y |-> 1080,
                                   film_transparent |-> TRUE ]
            /\ rendered' = TRUE
            /\ stdout' = stdout \o <<"Render engine set to Cycles.", "World nodes enabled.",
                                     "Background color set to white.",
                                     "Background strength set.",
                                     "Background node connected to World Output.",
                                     "Starting render...", "Render saved">>
       ELSE UNCHANGED <<engine, world, renderSettings, rendered, stdout>>
    /\ pc' = "quit"
    /\ UNCHANGED <<sys_argv, argv, input_dae_path, output_blend_path, output_image_path,
                   exitStatus, dirs, scene, camera, saved>>

\* ------------------------------------------------- line 229: quit_blender
Quit ==
    /\ pc = "quit"
    /\ exitStatus' = 0
    /\ pc' = "done"
    /\ UNCHANGED <<sys_argv, argv, input_dae_path, output_blend_path, output_image_path,
                   stdout, dirs, scene, camera, world, engine, renderSettings,
                   saved, rendered>>

Next == \/ ParseArgs
        \/ EnsureDirs
        \/ ResetScene
        \/ ImportOk
        \/ ImportFail
        \/ RemoveArmatures
        \/ CenterMeshes
        \/ AddCamera
        \/ AddLight
        \/ SaveBlend
        \/ Render
        \/ Quit

Spec == Init /\ [][Next]_vars

\* ------------------------------------------------------------- properties
Printed(msg) == \E i \in 1..Len(stdout) : stdout[i] = msg

NoArmature == \A o \in DOMAIN scene : scene[o].type # "ARMATURE"

PostImport == {"armatures", "center", "camera", "light", "save", "render", "quit", "done"}

\* C1: every run that gets past the import step goes on to the end of the
\* script (each later stage has a next step and none leaves the pipeline),
\* and from the removal step on no object of type ARMATURE is in the scene.
C1_ArmaturesRemoved ==
    /\ [](pc \in PostImport \ {"done"} => ENABLED Next)
    /\ [](pc \in PostImport \ {"armatures"} => NoArmature)
    /\ [][(pc \in PostImport) => (pc' \in PostImport)]_vars

C1_Witness ==
    /\ pc = "done"
    /\ Printed("Deleted armature objects.")
    /\ \E o \in DOMAIN scene : scene[o].type = "MESH"
    /\ NoArmature

\* C2: at the save/render stage the scene has an active camera and at least
\* one LIGHT object exists, whether or not the import supplied them.
C2_CameraAndLight ==
    pc \in {"save", "render", "quit", "done"} =>
        /\ camera # NoObject
        /\ camera \in DOMAIN scene
        /\ \E o \in DOMAIN scene : scene[o].type = "LIGHT"

C2_Witness ==
    /\ pc = "save"
    /\ Printed("Added a default camera.")
    /\ Printed("Existing light found, not adding a new one.")
    /\ Cardinality({ o \in DOMAIN scene : scene[o].type = "CAMERA" }) = 2

GivenNonEmpty(k) == Len(argv) >= k /\ argv[k] # EmptyPath

\* C3 (as stated): in a finished run the .blend file is saved iff a second
\* argument was given and a render is performed iff a third argument was
\* given; without the image path the engine, world and render settings stay.
C3_Original ==
    /\ [](pc = "done" => /\ (saved <=> Len(argv) > 1)
                         /\ (rendered <=> Len(argv) > 2))
    /\ [][(pc \in {"save", "render", "quit"} /\ Len(argv) <= 2)
              => UNCHANGED <<engine, world, renderSettings>>]_vars

\* C3 (amended): in a finished run the .blend file is saved iff a non-empty
\* second argument was given and a render is performed iff a non-empty third
\* argument was given; when the image path is absent or empty, the engine,
\* the world node tree and the render settings are left unchanged.
C3_SaveRenderIffNonEmpty ==
    /\ [](pc = "done" => /\ (saved <=> GivenNonEmpty(2))
                         /\ (rendered <=> GivenNonEmpty(3)))
    /\ [][(pc \in {"save", "render", "quit"} /\ ~GivenNonEmpty(3))
              => UNCHANGED <<engine, world, renderSettings>>]_vars

C3_Witness ==
    /\ pc = "done"
    /\ Len(argv) = 3
    /\ argv[2] = EmptyPath
    /\ ~saved
    /\ rendered
    /\ engine = "CYCLES"

NothingAfterSeparator == \A i \in 1..Len(sys_argv) : sys_argv[i] = DashDash => i = Len(sys_argv)

\* C5: with no "--" separator, or nothing after it, the script exits with
\* status 1 before any effect: no directory created, scene not reset, nothing
\* imported, saved or rendered.
C5_UsageExit ==
    (NothingAfterSeparator /\ pc # "args") =>
        /\ pc = "exited"
        /\ exitStatus = 1
        /\ dirs = {}
        /\ scene = StartupScene /\ camera = 1 /\ world = DefaultWorld
        /\ ~Printed("Attempting to import DAE")
        /\ ~Printed("Successfully imported DAE")
        /\ ~saved
        /\ ~rendered

C5_Witness ==
    /\ pc = "exited"
    /\ NothingAfterSeparator
    /\ Len(sys_argv) > 1
    /\ Printed("Usage")

\* C6: when the import raises RuntimeError the script exits with status 1 and
\* no later step runs: no armature removal, no centring, no camera or light
\* added, nothing saved, nothing rendered.
C6_ImportErrorExit ==
    Printed("Error importing DAE file") =>
        /\ pc = "exited"
        /\ exitStatus = 1
        /\ stdout[Len(stdout)] = "Error importing DAE file"
        /\ scene = EmptyScene
        /\ camera = NoObject
        /\ ~saved
        /\ ~rendered
        /\ engine = FactoryEngine

C6_Witness ==
    /\ pc = "exited"
    /\ Printed("Error importing DAE file")
    /\ Truthy(output_blend_path)
    /\ Truthy(output_image_path)

Provided == { p \in {output_blend_path, output_image_path} : Truthy(p) }

\* C7: for every output path that is provided, also one with no directory
\* component (output.blend, render.png), the script ensures the path's
\* directory exists and goes on to the import step.
C7_DirsEnsured ==
    (pc \notin {"args", "mkdirs", "exited"} \/ Printed("Error importing DAE file")) =>
        /\ pc # "crashed"
        /\ \A p \in Provided : Dirname(p) = EmptyPath \/ Dirname(p) \in dirs
====
